---- MODULE Spec2Model ----
(***************************************************************************)
(* Smart B-Roll Inserter: the semantic matcher's constrained selection     *)
(* (backend/app/services/matcher.py), the timeline planner                 *)
(* (backend/app/services/timeline.py), the B-roll analyzer                 *)
(* (backend/app/services/broll_analysis.py), the renderer                  *)
(* (backend/app/services/render.py) and the endpoint POST /generate        *)
(* (backend/app/main.py) with the transcriber's file handling              *)
(* (backend/app/services/transcribe.py).                                   *)
(*                                                                         *)
(* Spec is the pipeline match -> create_timeline; AssemblerSpec is         *)
(* create_timeline called, and called again, on insertion lists of the     *)
(* caller's choice; AnalyzerSpec is analyze_brolls; RenderSpec is render;  *)
(* GenerateSpec is one request of /generate, stage by stage.               *)
(*                                                                         *)
(* Units.  Times are integers in milliseconds (5.0 s = 5000); similarities *)
(* are integers in 1/10000 (0.72 = 7200).  round(x, 2) on a time is        *)
(* rounding to a multiple of 10 ms, round(x, 3) on a similarity is         *)
(* rounding to a multiple of 10.  Python list indices are 0-based and are  *)
(* kept 0-based in segment_idx; TLA+ sequences are 1-based, so the         *)
(* segment of index segment_idx is aroll_segments[segment_idx + 1].        *)
(***************************************************************************)
EXTENDS Integers, Sequences, FiniteSets, TLC

(***************************************************************************)
(* Bounds of the model and program constants                               *)
(***************************************************************************)

\* Largest number of narration segments of a transcript.
MaxSegs == 3

\* "if start_time - last_insertion_time < 5.0" (Pass 1), in ms.
StrictGap == 5000
\* "if start_time - last_insertion_time < 3.0" (Pass 2), in ms.
RelaxedGap == 3000
\* "if used_brolls.get(broll_id, 0) >= 2".
MaxUsesPerBroll == 2
\* "last_insertion_time = -10.0", in ms.
InitialLastInsertionTime == -10000
\* similarity_threshold default 0.72, in 1/10000.
DefaultThreshold == 7200

\* The B-roll ids, in the order of broll_descriptions.keys().
broll_ids == <<"broll_1", "broll_2">>

\* Raw Whisper segment lengths (ms): 3.0 s and 5.0 s, off the 10 ms grid.
RawDurations == {3004, 5004}
\* Raw Whisper start of the first segment (ms).
RawFirstStarts == {0, 24}

\* Cosine similarities a segment can have with broll_1 and with broll_2:
\* below the threshold, exactly at it (broll_1 only), above it.  Ties and
\* strict orders between the two clips and between segments all occur.
SimLevels == <<{5000, 7200, 8537}, {5000, 8537}>>

\* The configurations (min_insertions, max_insertions) of SemanticMatcher.
MinChoices == 0..MaxSegs
MaxChoices == 1..MaxSegs

(***************************************************************************)
(* Helpers                                                                 *)
(***************************************************************************)

Range(s) == {s[k] : k \in 1..Len(s)}

\* round(x, 2) of a time x >= 0 held in ms.
Round2(x) == ((x + 5) \div 10) * 10

\* round(x, 3) of a similarity x >= 0 held in 1/10000.
Round3(x) == ((x + 5) \div 10) * 10

\* list.sort(key=...) / sorted(..., key=...): a stable sort, ascending in
\* key; keys[i] is the key of s[i].  The element at index i goes after the
\* elements of smaller key and after the elements of equal key that come
\* before it.
StableSort(s, keys) ==
    LET rank == [i \in 1..Len(s) |->
                    Cardinality({j \in 1..Len(s) :
                        \/ keys[j] < keys[i]
                        \/ keys[j] = keys[i] /\ j < i})]
    IN [p \in 1..Len(s) |-> s[CHOOSE i \in 1..Len(s) : rank[i] = p - 1]]

(***************************************************************************)
(* broll_analysis.py: BRollAnalyzer                                        *)
(***************************************************************************)

\* The clip ids a metadata dictionary can have as keys.
ClipIdPool == {"broll_1", "broll_2", "broll_3"}

\* What a clip's metadata holds: a dictionary with a title, an empty
\* dictionary, a dictionary whose description is a number, a JSON value
\* that is not an object, or text that is not JSON.
DictContents == {"titled", "empty", "numeric_description"}

\* A clip's metadata: a dict, a JSON string, the path of an existing file,
\* or another Python value (a list, None).
Metadata ==
    [form : {"dict"}, content : DictContents]
        \cup [form : {"json_string", "file_path"},
              content : DictContents \cup {"not_a_dict", "malformed"}]
        \cup [form : {"other"}, content : {"not_a_dict"}]

\* _normalize_metadata: json.load / json.loads of a string raises on text
\* that is not JSON; a value that is not a dict raises ValueError.
NormalizeMetadata(metadata) ==
    IF metadata.form \in {"json_string", "file_path"} /\ metadata.content = "malformed"
    THEN [raised |-> "JSONDecodeError", value |-> "None"]
    ELSE IF metadata.content = "not_a_dict"
    THEN [raised |-> "ValueError", value |-> "None"]
    ELSE [raised |-> "None", value |-> metadata.content]

\* _extract_key_fields followed by _build_description, on a normalized
\* dictionary: the title, the fallback text of a dictionary without fields,
\* or the TypeError of len() on a description that is a number.
BuildDescription(normalized) ==
    CASE normalized = "titled" -> [raised |-> "None", value |-> <<"Demo">>]
      [] normalized = "empty" -> [raised |-> "None", value |-> <<"B-roll video clip">>]
      [] normalized = "numeric_description" -> [raised |-> "TypeError", value |-> <<>>]

\* analyze_broll: the description of one clip, or the exception raised.
AnalyzeBroll(metadata) ==
    LET normalized == NormalizeMetadata(metadata)
    IN IF normalized.raised # "None" THEN [raised |-> normalized.raised, value |-> <<>>]
       ELSE BuildDescription(normalized.value)

\* f"B-roll clip {broll_id}".
Placeholder(broll_id) == <<"B-roll clip", broll_id>>

\* One turn of the loop of analyze_brolls: "try: ... except Exception".
DescriptionOf(broll_id, metadata) ==
    LET analyzed == AnalyzeBroll(metadata)
    IN IF analyzed.raised # "None" THEN Placeholder(broll_id) ELSE analyzed.value

(***************************************************************************)
(* transcribe.py: process_segments                                         *)
(***************************************************************************)

\* The raw transcripts: n contiguous segments, given by the raw boundaries
\* b[1] < b[2] < ... < b[n+1].
RECURSIVE RawBoundaries(_)
RawBoundaries(n) ==
    IF n = 0 THEN {<<f>> : f \in RawFirstStarts}
    ELSE {Append(b, b[Len(b)] + d) : b \in RawBoundaries(n - 1), d \in RawDurations}

\* process_segments: start_time and end_time are rounded to 2 places; the
\* text of segment k is the token k.
process_segments(b) ==
    [k \in 1..(Len(b) - 1) |->
        [start_time |-> Round2(b[k]), end_time |-> Round2(b[k + 1]), text |-> k]]

Transcripts == UNION {{process_segments(b) : b \in RawBoundaries(n)} : n \in 1..MaxSegs}

(***************************************************************************)
(* matcher.py: SemanticMatcher._select_best_matches                        *)
(***************************************************************************)

\* The (segment, clip) pair number k of the nested enumeration
\* "for seg_idx ...: for broll_idx ...".
PotentialMatch(sim, segs, k) ==
    LET seg_idx == (k - 1) \div Len(broll_ids)
        broll_idx == (k - 1) % Len(broll_ids)
    IN [segment_idx |-> seg_idx,
        broll_id |-> broll_ids[broll_idx + 1],
        similarity |-> sim[seg_idx + 1][broll_idx + 1],
        start_time |-> segs[seg_idx + 1].start_time,
        end_time |-> segs[seg_idx + 1].end_time,
        aroll_text |-> segs[seg_idx + 1].text]

\* Mutant: the threshold test is missing.
AboveThresholdAlways(similarity, threshold) == TRUE

\* "if similarity >= self.similarity_threshold".
AboveThreshold(similarity, threshold) == similarity >= threshold

\* Mutant: the candidates are sorted ascending and then reversed, which
\* walks candidates of equal similarity in reverse enumeration order.
FindPotentialMatchesTiesReversed(sim, segs, threshold) ==
    LET all == [k \in 1..(Len(segs) * Len(broll_ids)) |-> PotentialMatch(sim, segs, k)]
        above == SelectSeq(all, LAMBDA m : AboveThreshold(m.similarity, threshold))
        asc == StableSort(above, [k \in 1..Len(above) |-> above[k].similarity])
    IN [k \in 1..Len(asc) |-> asc[Len(asc) + 1 - k]]

\* The threshold filter and the sort by similarity, highest first
\* ("potential_matches.sort(key=..., reverse=True)", a stable sort).
FindPotentialMatches(sim, segs, threshold) ==
    LET all == [k \in 1..(Len(segs) * Len(broll_ids)) |-> PotentialMatch(sim, segs, k)]
        above == SelectSeq(all, LAMBDA m : AboveThreshold(m.similarity, threshold))
    IN StableSort(above, [k \in 1..Len(above) |-> 0 - above[k].similarity])

\* Mutant: last_insertion_time starts at 0.0.
InitialSelectionAtZero ==
    [matches |-> <<>>,
     selected_indices |-> {},
     used_brolls |-> [b \in Range(broll_ids) |-> 0],
     last_insertion_time |-> 0]

\* The selection state before the first pass.
InitialSelection ==
    [matches |-> <<>>,
     selected_indices |-> {},
     used_brolls |-> [b \in Range(broll_ids) |-> 0],
     last_insertion_time |-> InitialLastInsertionTime]

\* "Add this match".
AddMatch(st, match) ==
    [matches |-> Append(st.matches, match),
     selected_indices |-> st.selected_indices \cup {match.segment_idx},
     used_brolls |-> [st.used_brolls EXCEPT ![match.broll_id] = @ + 1],
     last_insertion_time |-> match.start_time]

\* "start_time - last_insertion_time" is a subtraction of two doubles. The
\* pairs <<start_time, last_insertion_time>> of the segments considered here
\* that are exactly 3.0 s or 5.0 s apart in decimal and whose IEEE 754
\* difference lies just below 3.0 or 5.0; every other difference is on the
\* same side of 3.0 and of 5.0 as its decimal.
FloatDifferenceShort == {<<8030, 5030>>, <<10030, 5030>>}

\* Mutant: the gap is measured on either side of the last insertion.
TooCloseEitherSide(start_time, last_insertion_time, gap) ==
    /\ start_time - last_insertion_time < gap
    /\ last_insertion_time - start_time < gap

\* "start_time - last_insertion_time < gap".
TooClose(start_time, last_insertion_time, gap) ==
    \/ start_time - last_insertion_time < gap
    \/ /\ start_time - last_insertion_time = gap
       /\ <<start_time, last_insertion_time>> \in FloatDifferenceShort

\* Mutant: the break of Pass 1 comes one match late.
Pass1BreakLate(st, max) == Len(st.matches) > max

\* "if len(matches) >= self.max_insertions: break".
Pass1Break(st, max) == Len(st.matches) >= max

\* Mutant: Pass 1 measures the gap with the relaxed 3.0 s.
Pass1AcceptsRelaxed(st, match) ==
    /\ ~(match.segment_idx \in st.selected_indices)
    /\ ~(st.used_brolls[match.broll_id] >= MaxUsesPerBroll)
    /\ ~TooClose(match.start_time, st.last_insertion_time, RelaxedGap)

\* The three "continue" tests of Pass 1.
Pass1Accepts(st, match) ==
    /\ ~(match.segment_idx \in st.selected_indices)
    /\ ~(st.used_brolls[match.broll_id] >= MaxUsesPerBroll)
    /\ ~TooClose(match.start_time, st.last_insertion_time, StrictGap)

RECURSIVE Pass1Loop(_, _, _, _)
Pass1Loop(pm, k, st, max) ==
    IF k > Len(pm) \/ Pass1Break(st, max) THEN st
    ELSE Pass1Loop(pm, k + 1,
                   IF Pass1Accepts(st, pm[k]) THEN AddMatch(st, pm[k]) ELSE st,
                   max)

\* Mutant: the break of Pass 2 comes one match late.
Pass2BreakLate(st, min) == Len(st.matches) > min

\* "if len(matches) >= self.min_insertions: break".
Pass2Break(st, min) == Len(st.matches) >= min

\* Mutant: Pass 2 drops the gap test.
Pass2AcceptsNoGap(st, match) ==
    ~(match.segment_idx \in st.selected_indices)

\* Mutant: Pass 2 takes every candidate it walks over.
Pass2AcceptsAll(st, match) == TRUE

\* The two "continue" tests of Pass 2.
Pass2Accepts(st, match) ==
    /\ ~(match.segment_idx \in st.selected_indices)
    /\ ~TooClose(match.start_time, st.last_insertion_time, RelaxedGap)

RECURSIVE Pass2Loop(_, _, _, _)
Pass2Loop(pm, k, st, min) ==
    IF k > Len(pm) \/ Pass2Break(st, min) THEN st
    ELSE Pass2Loop(pm, k + 1,
                   IF Pass2Accepts(st, pm[k]) THEN AddMatch(st, pm[k]) ELSE st,
                   min)

\* "if len(matches) < self.min_insertions:" guards the second pass.
Pass2Runs(st, min) == Len(st.matches) < min

\* Mutant: the second pass collects its matches in a fresh list.
AfterPass2FreshList(pm, st, min) ==
    IF Pass2Runs(st, min)
    THEN Pass2Loop(pm, 1, [st EXCEPT !.matches = <<>>], min)
    ELSE st

\* _select_best_matches: the state after Pass 2 (lines 237-257), before the
\* final sort.
AfterPass2(pm, st, min) ==
    IF Pass2Runs(st, min) THEN Pass2Loop(pm, 1, st, min) ELSE st

\* Mutant: the final sort is descending.
SortByStartTimeDescending(ms) ==
    StableSort(ms, [k \in 1..Len(ms) |-> 0 - ms[k].start_time])

\* "matches.sort(key=lambda x: x["start_time"])".
SortByStartTime(ms) == StableSort(ms, [k \in 1..Len(ms) |-> ms[k].start_time])

(***************************************************************************)
(* matcher.py: SemanticMatcher.match, the output format                    *)
(***************************************************************************)

\* Mutant: duration_sec is the end_time of the segment.
FormatMatchEndAsDuration(segs, match) ==
    LET segment == segs[match.segment_idx + 1]
    IN [start_sec |-> Round2(segment.start_time),
        duration_sec |-> Round2(segment.end_time),
        broll_id |-> match.broll_id,
        confidence |-> Round3(match.similarity)]

\* One formatted match (the reason string is cosmetic and is left out).
FormatMatch(segs, match) ==
    LET segment == segs[match.segment_idx + 1]
        duration == segment.end_time - segment.start_time
    IN [start_sec |-> Round2(segment.start_time),
        duration_sec |-> Round2(duration),
        broll_id |-> match.broll_id,
        confidence |-> Round3(match.similarity)]

FormatMatches(segs, ms) == [k \in 1..Len(ms) |-> FormatMatch(segs, ms[k])]

(***************************************************************************)
(* timeline.py: TimelinePlanner                                            *)
(***************************************************************************)

\* "abs(seg["start_time"] - insertion_start) < 0.1", in ms.
MatchTolerance == 100

\* "current_time = insertion_start + insertion_duration" is an addition of
\* two doubles, and its result need not be the double that round(x, 2) gives
\* for the same decimal. The pairs <<start_sec, duration_sec>> of the
\* insertions considered here whose IEEE 754 sum lies above that double ...
FloatSumAbove == {<<5030, 3000>>, <<5030, 5000>>}

\* ... and those whose sum lies below it; the sum of every other pair is
\* that double itself.
FloatSumBelow == {<<20, 5010>>, <<3030, 3000>>}

\* The sign of (start_sec + duration_sec) - round(start_sec + duration_sec, 2).
FloatSumExcess(start_sec, duration_sec) ==
    IF <<start_sec, duration_sec>> \in FloatSumAbove THEN 1
    ELSE IF <<start_sec, duration_sec>> \in FloatSumBelow THEN -1
    ELSE 0

\* "t < u" for a sum t, given by its decimal and its excess, and a double u
\* that round(x, 2) gave.
SumLess(t, excess, u) == t < u \/ (t = u /\ excess < 0)

\* "u < t", likewise.
LessThanSum(u, t, excess) == u < t \/ (u = t /\ excess > 0)

\* _get_transcript_for_range: the texts of the overlapping segments, in
\* order (the " ".join of the code is kept as the sequence of texts). The
\* start of the range is current_time, a sum; its end is a rounded value.
TranscriptForRange(segments, start_time, start_excess, end_time) ==
    LET relevant == SelectSeq(segments, LAMBDA seg :
                        ~(LessThanSum(seg.end_time, start_time, start_excess)
                          \/ seg.start_time > end_time))
    IN [k \in 1..Len(relevant) |-> relevant[k].text]

\* An "a_roll" timeline segment from `from` to `to`.
ARollSegment(segs, from, from_excess, to) ==
    [type |-> "a_roll",
     start_time |-> Round2(from),
     end_time |-> Round2(to),
     duration |-> Round2(to - from),
     source |-> "a_roll_video",
     transcript |-> TranscriptForRange(segs, from, from_excess, to)]

\* The first A-roll segment starting within the tolerance of the insertion,
\* as the one-element sequence of its text, start_time and end_time; None is
\* the empty sequence.
MatchingSegment(segs, insertion_start) ==
    LET near == SelectSeq(segs, LAMBDA seg :
                    (IF seg.start_time >= insertion_start
                     THEN seg.start_time - insertion_start
                     ELSE insertion_start - seg.start_time) < MatchTolerance)
    IN IF near = <<>> THEN <<>>
       ELSE <<[text |-> Head(near).text,
               start_time |-> Head(near).start_time,
               end_time |-> Head(near).end_time]>>

\* Mutant: the cutaway lasts 5.0 s, whatever the insertion's duration_sec.
BRollSegmentFixedLength(segs, insertion) ==
    [type |-> "b_roll",
     start_time |-> Round2(insertion.start_sec),
     end_time |-> Round2(insertion.start_sec + 5000),
     duration |-> Round2(5000),
     source |-> insertion.broll_id,
     confidence |-> insertion.confidence,
     matching_segment |-> MatchingSegment(segs, insertion.start_sec)]

\* A "b_roll" timeline segment for one insertion.
BRollSegment(segs, insertion) ==
    [type |-> "b_roll",
     start_time |-> Round2(insertion.start_sec),
     end_time |-> Round2(insertion.start_sec + insertion.duration_sec),
     duration |-> Round2(insertion.duration_sec),
     source |-> insertion.broll_id,
     confidence |-> insertion.confidence,
     matching_segment |-> MatchingSegment(segs, insertion.start_sec)]

\* One turn of "for insertion in insertions".
InsertionStep(segs, tl, insertion) ==
    LET before == IF SumLess(tl.current_time, tl.current_excess, insertion.start_sec)
                  THEN Append(tl.timeline_segments,
                              ARollSegment(segs, tl.current_time, tl.current_excess,
                                           insertion.start_sec))
                  ELSE tl.timeline_segments
    IN [timeline_segments |-> Append(before, BRollSegment(segs, insertion)),
        current_time |-> insertion.start_sec + insertion.duration_sec,
        current_excess |-> FloatSumExcess(insertion.start_sec, insertion.duration_sec)]

RECURSIVE InsertionLoop(_, _, _, _)
InsertionLoop(segs, insertions, k, tl) ==
    IF k > Len(insertions) THEN tl
    ELSE InsertionLoop(segs, insertions, k + 1, InsertionStep(segs, tl, insertions[k]))

\* "Add remaining A-roll content after last insertion".
RemainingARoll(segs, tl, total_aroll_duration) ==
    IF SumLess(tl.current_time, tl.current_excess, total_aroll_duration)
    THEN Append(tl.timeline_segments,
                ARollSegment(segs, tl.current_time, tl.current_excess,
                             total_aroll_duration))
    ELSE tl.timeline_segments

\* "If no insertions, return full A-roll".
FullARoll(segs, insertions, timeline, total_aroll_duration) ==
    IF insertions = <<>>
    THEN Append(timeline, ARollSegment(segs, 0, 0, total_aroll_duration))
    ELSE timeline

\* Mutant: the insertions are walked in the order of the caller's list.
CreateTimelineSegmentsUnsorted(segs, broll_matches) ==
    IF segs = <<>> THEN <<>>
    ELSE LET total_aroll_duration == segs[Len(segs)].end_time
             tl == InsertionLoop(segs, broll_matches, 1,
                       [timeline_segments |-> <<>>, current_time |-> 0,
                           current_excess |-> 0])
         IN FullARoll(segs, broll_matches,
                      RemainingARoll(segs, tl, total_aroll_duration),
                      total_aroll_duration)

\* Mutant: an empty segment list gives a total duration of 0.0 and no early
\* return.
CreateTimelineSegmentsNoEarlyReturn(segs, broll_matches) ==
    LET insertions == StableSort(broll_matches,
                        [k \in 1..Len(broll_matches) |-> broll_matches[k].start_sec])
        total_aroll_duration == IF segs = <<>> THEN 0 ELSE segs[Len(segs)].end_time
        tl == InsertionLoop(segs, insertions, 1,
                  [timeline_segments |-> <<>>, current_time |-> 0,
                           current_excess |-> 0])
    IN FullARoll(segs, insertions,
                 RemainingARoll(segs, tl, total_aroll_duration),
                 total_aroll_duration)

\* _create_timeline_segments.
CreateTimelineSegments(segs, broll_matches) ==
    LET insertions == StableSort(broll_matches,
                        [k \in 1..Len(broll_matches) |-> broll_matches[k].start_sec])
    IN IF segs = <<>> THEN <<>>
       ELSE LET total_aroll_duration == segs[Len(segs)].end_time
                tl == InsertionLoop(segs, insertions, 1,
                          [timeline_segments |-> <<>>, current_time |-> 0,
                           current_excess |-> 0])
            IN FullARoll(segs, insertions,
                         RemainingARoll(segs, tl, total_aroll_duration),
                         total_aroll_duration)

\* The sum of the durations of the timeline segments of the given types.
RECURSIVE SumDuration(_, _)
SumDuration(tl, types) ==
    IF tl = <<>> THEN 0
    ELSE (IF Head(tl).type \in types THEN Head(tl).duration ELSE 0)
             + SumDuration(Tail(tl), types)

\* The number of timeline segments of a type.
CountType(tl, type) == Cardinality({k \in 1..Len(tl) : tl[k].type = type})

\* _calculate_statistics: the durations and the counts; the two ratios are
\* CoveragePercent and AverageConfidence below.
CalculateStatistics(tl, segs, broll_matches) ==
    [total_duration |-> Round2(SumDuration(tl, {"a_roll", "b_roll"})),
     original_aroll_duration |->
         Round2(IF segs = <<>> THEN 0 ELSE segs[Len(segs)].end_time),
     aroll_duration |-> Round2(SumDuration(tl, {"a_roll"})),
     broll_duration |-> Round2(SumDuration(tl, {"b_roll"})),
     aroll_segments |-> CountType(tl, "a_roll"),
     broll_insertions |-> CountType(tl, "b_roll"),
     total_segments |-> Len(tl)]

\* round(x, ndigits) of the quotient x = num / den (den > 0), in units of
\* the last decimal kept: the nearest integer. When x lies halfway between
\* two of them the binary value of the double decides which one round
\* returns, and either is an outcome.
Rounded(num, den) ==
    LET q == num \div den
        r == num % den
    IN IF 2 * r < den THEN {q}
       ELSE IF 2 * r > den THEN {q + 1}
       ELSE {q, q + 1}

\* Mutant: the coverage is taken relative to the A-roll duration.
CoveragePercentOfARoll(tl) ==
    LET aroll_duration == SumDuration(tl, {"a_roll"})
        broll_duration == SumDuration(tl, {"b_roll"})
    IN IF aroll_duration > 0 THEN Rounded(broll_duration * 1000, aroll_duration)
       ELSE {0}

\* "broll_coverage_percent": round(broll_duration / total_duration * 100, 1)
\* if total_duration > 0 else 0.0, in tenths of a percent.
CoveragePercent(tl) ==
    LET total_duration == SumDuration(tl, {"a_roll", "b_roll"})
        broll_duration == SumDuration(tl, {"b_roll"})
    IN IF total_duration > 0 THEN Rounded(broll_duration * 1000, total_duration)
       ELSE {0}

\* The sum of the confidences of the insertions.
RECURSIVE TotalConfidence(_)
TotalConfidence(broll_matches) ==
    IF broll_matches = <<>> THEN 0
    ELSE Head(broll_matches).confidence + TotalConfidence(Tail(broll_matches))

\* "average_confidence": round(total_confidence / len(broll_matches), 3), and
\* 0.0 for no insertions, in 1/10000 as the similarities are.
AverageConfidence(broll_matches) ==
    IF broll_matches = <<>> THEN {0}
    ELSE {10 * q : q \in Rounded(TotalConfidence(broll_matches),
                                 10 * Len(broll_matches))}

\* The "debug_info" of a timeline.
DebugInfo(tl, segs, broll_matches) ==
    [original_aroll_segments |-> Len(segs),
     broll_matches_found |-> Len(broll_matches),
     timeline_segments_created |-> Len(tl),
     aroll_segments |-> segs,
     broll_insertions |->
         [k \in 1..Len(broll_matches) |->
             [broll_id |-> broll_matches[k].broll_id,
              at_time |-> broll_matches[k].start_sec,
              confidence |-> broll_matches[k].confidence]]]

\* The dictionary create_timeline returns, for a planner without a video
\* path; uuid is the value of uuid.uuid4() and now that of datetime.utcnow().
Timeline(uuid, now, tl, segs, broll_matches) ==
    LET stats == CalculateStatistics(tl, segs, broll_matches)
    IN [timeline_id |-> uuid,
        created_at |-> now,
        source_video |-> "a_roll_video.mp4",
        total_duration |-> stats.total_duration,
        segments |-> tl,
        statistics |-> stats,
        debug_info |-> DebugInfo(tl, segs, broll_matches)]

(***************************************************************************)
(* render.py: VideoRenderer                                                *)
(***************************************************************************)

\* Largest number of segments of a timeline handed to render.
MaxRenderSegs == 3

\* "[s for s in timeline_segments if s["type"] == "b_roll"]".
BRollSegments(timeline_segments) ==
    SelectSeq(timeline_segments, LAMBDA s : s.type = "b_roll")

\* Mutant: a B-roll without an entry in broll_paths is passed over.
ValidateMappedBRollPaths(broll_segments, paths, existing) ==
    LET failing == {i \in 1..Len(broll_segments) :
                       /\ broll_segments[i].source \in paths
                       /\ broll_segments[i].source \notin existing}
    IN IF failing = {} THEN "None" ELSE "FileNotFoundError"

\* render, "Validate B-roll paths": the exception of the first B-roll segment
\* that has no entry in broll_paths or whose file does not exist, "None" if
\* there is none.
ValidateBRollPaths(broll_segments, paths, existing) ==
    LET failing == {i \in 1..Len(broll_segments) :
                       \/ broll_segments[i].source \notin paths
                       \/ broll_segments[i].source \notin existing}
        first == CHOOSE i \in failing : \A j \in failing : i <= j
    IN IF failing = {} THEN "None"
       ELSE IF broll_segments[first].source \notin paths THEN "ValueError"
       ELSE "FileNotFoundError"

\* _build_ffmpeg_command, the loop over broll_segments: the ids that get an
\* "-i" input, each once, in the order of their first use.
RECURSIVE BRollInputs(_, _, _)
BRollInputs(broll_segments, paths, broll_inputs) ==
    IF broll_segments = <<>> THEN broll_inputs
    ELSE LET broll_id == Head(broll_segments).source
         IN BRollInputs(Tail(broll_segments), paths,
                        IF broll_id \in paths /\ broll_id \notin Range(broll_inputs)
                        THEN Append(broll_inputs, broll_id)
                        ELSE broll_inputs)

\* broll_input_map[broll_id]: input 0 is the A-roll, the B-rolls follow.
InputIndex(broll_inputs, broll_id) ==
    CHOOSE i \in 1..Len(broll_inputs) : broll_inputs[i] = broll_id

\* _build_overlay_filters: one overlay per B-roll segment that has an input;
\* a B-roll segment without one is passed over ("skipping...").
RECURSIVE BuildOverlayFilters(_, _, _)
BuildOverlayFilters(timeline_segments, broll_inputs, overlay_filters) ==
    IF timeline_segments = <<>> THEN overlay_filters
    ELSE LET segment == Head(timeline_segments)
         IN BuildOverlayFilters(
                Tail(timeline_segments), broll_inputs,
                IF segment.type = "b_roll" /\ segment.source \in Range(broll_inputs)
                THEN Append(overlay_filters,
                            [input_index |-> InputIndex(broll_inputs, segment.source),
                             enable_from |-> segment.start_time,
                             enable_to |-> segment.start_time + segment.duration,
                             output_index |-> Len(overlay_filters) + 1])
                ELSE overlay_filters)

\* _build_ffmpeg_command: the inputs, and either the overlay chain or, with
\* no overlay, the plain copy of the A-roll.
BuildFfmpegCommand(timeline_segments, paths) ==
    LET broll_inputs == BRollInputs(BRollSegments(timeline_segments), paths, <<>>)
        overlay_filters == BuildOverlayFilters(timeline_segments, broll_inputs, <<>>)
    IN [inputs |-> <<"a_roll">> \o broll_inputs,
        overlay_filters |-> overlay_filters,
        copy |-> overlay_filters = <<>>]

(***************************************************************************)
(* State                                                                   *)
(***************************************************************************)

VARIABLES
    aroll_segments,        \* the transcript handed to match and create_timeline
    similarity_matrix,     \* similarity_matrix[seg_idx + 1][broll_idx + 1]
    similarity_threshold,  \* SemanticMatcher.similarity_threshold
    min_insertions,        \* SemanticMatcher.min_insertions
    max_insertions,        \* SemanticMatcher.max_insertions
    potential_matches,     \* the sorted candidates
    matches,               \* the accepted matches; sorted by start_time on return
    selected_indices,      \* segment indices that have a match
    used_brolls,           \* uses of each B-roll
    last_insertion_time,   \* start_time of the latest accepted match
    accept_order,          \* history: the matches in the order of matches.append
    pass1_matches,         \* history: matches when Pass 1 ended
    formatted_matches,     \* the list match returns
    timeline_segments,     \* the list _create_timeline_segments returns
    broll_descriptions,    \* the clip ids of the description map handed to match
    embedding_calls,       \* calls of client.embeddings.create so far
    error,                 \* the exception a call ended with, or "None"
    timeline,              \* the dictionary create_timeline returned, <<>> before
    statistics_ratios,     \* its broll_coverage_percent and average_confidence
    uuids_issued,          \* calls of uuid.uuid4() so far
    clock,                 \* readings of datetime.utcnow() so far
    broll_metadata,        \* the items of the dictionary handed to analyze_brolls
    descriptions,          \* the items of the dictionary analyze_brolls returns
    passed_insertions,     \* history: the insertion list as handed to create_timeline
    previous_timeline,     \* history: what the call of create_timeline before returned
    previous_insertions,   \* history: the insertion list of the call before
    request,               \* what a request of /generate carries, <<>> outside one
    files,                 \* the temporary files and directories that exist
    stages,                \* history: the stages and provider calls started
    response,              \* the response of /generate, <<>> before it is settled
    aroll_embeddings,      \* vectors the provider returned for the narration batch
    broll_embeddings,      \* vectors the provider returned for the clip batch
    render_timeline,       \* the timeline handed to VideoRenderer.render
    broll_paths,           \* the clip ids of its broll_paths mapping
    video_files,           \* the state of the A-roll file and of the mapped files
    ffmpeg_runs,           \* history: the commands handed to subprocess.run
    render_result,         \* what render returned or raised, <<>> before
    pc                     \* the step of the pipeline that runs next

vars == <<aroll_segments, similarity_matrix, similarity_threshold, min_insertions,
          max_insertions, potential_matches, matches, selected_indices, used_brolls,
          last_insertion_time, accept_order, pass1_matches, formatted_matches,
          timeline_segments, broll_descriptions, embedding_calls, error, timeline,
          statistics_ratios, uuids_issued, clock, broll_metadata, descriptions, passed_insertions,
          previous_timeline, previous_insertions, request, files, stages, response,
          aroll_embeddings, broll_embeddings, render_timeline, broll_paths, video_files,
          ffmpeg_runs, render_result, pc>>

inputs == <<aroll_segments, broll_descriptions, similarity_matrix, similarity_threshold,
            min_insertions, max_insertions>>

\* What _select_best_matches keeps while it runs, and what match returns.
selection == <<potential_matches, matches, selected_indices, used_brolls,
               last_insertion_time, accept_order, pass1_matches, formatted_matches>>

\* What create_timeline returns and the sources of its id and time stamp.
planned == <<timeline_segments, timeline, statistics_ratios, uuids_issued, clock>>

\* The argument and the result of analyze_brolls.
analysis == <<broll_metadata, descriptions>>

\* The earlier call of create_timeline.
previous == <<previous_timeline, previous_insertions>>

\* A request of /generate: its form, its files, its stages and its response.
request_scope == <<request, files, stages, response, aroll_embeddings, broll_embeddings>>

\* A call of VideoRenderer.render.
rendering == <<render_timeline, broll_paths, video_files, ffmpeg_runs, render_result>>

\* No request of /generate is being served.
NoRequest ==
    /\ request = <<>>
    /\ files = {}
    /\ stages = <<>>
    /\ response = <<>>
    /\ aroll_embeddings = <<>>
    /\ broll_embeddings = <<>>

\* render is not called.
NoRendering ==
    /\ render_timeline = <<>>
    /\ broll_paths = {}
    /\ video_files = <<>>
    /\ ffmpeg_runs = <<>>
    /\ render_result = <<>>

\* "if not aroll_segments" or "if not broll_descriptions".
EmptyInput(segs, broll_descs) == segs = <<>> \/ broll_descs = <<>>

Init ==
    /\ aroll_segments \in Transcripts \cup {<<>>}
    /\ broll_descriptions \in {<<>>, broll_ids}
    /\ similarity_matrix \in
           IF EmptyInput(aroll_segments, broll_descriptions) THEN {<<>>}
           ELSE [1..Len(aroll_segments) ->
                   {row \in [1..Len(broll_ids) -> UNION Range(SimLevels)] :
                        \A b \in 1..Len(broll_ids) : row[b] \in SimLevels[b]}]
    /\ similarity_threshold = DefaultThreshold
    /\ min_insertions \in MinChoices
    /\ max_insertions \in MaxChoices
    /\ potential_matches = <<>>
    /\ matches = InitialSelection.matches
    /\ selected_indices = InitialSelection.selected_indices
    /\ used_brolls = InitialSelection.used_brolls
    /\ last_insertion_time = InitialSelection.last_insertion_time
    /\ accept_order = <<>>
    /\ pass1_matches = <<>>
    /\ formatted_matches = <<>>
    /\ timeline_segments = <<>>
    /\ embedding_calls = 0
    /\ error = "None"
    /\ timeline = <<>>
    /\ statistics_ratios = <<>>
    /\ uuids_issued = 0
    /\ clock = 0
    /\ broll_metadata = <<>>
    /\ descriptions = <<>>
    /\ passed_insertions = <<>>
    /\ previous_timeline = <<>>
    /\ previous_insertions = <<>>
    /\ pc = "match"
    /\ NoRequest
    /\ NoRendering

(***************************************************************************)
(* Actions                                                                 *)
(***************************************************************************)

\* Mutant: the inputs are validated after the first embedding call.
MatchEmptyInputLate ==
    /\ pc = "match"
    /\ EmptyInput(aroll_segments, broll_descriptions)
    /\ embedding_calls' = embedding_calls + 1
    /\ error' = "ValueError"
    /\ pc' = "error"
    /\ UNCHANGED <<request_scope, rendering, inputs,
                   analysis, selection, planned, passed_insertions, previous>>

\* SemanticMatcher.match on an empty segment list or an empty description
\* map: "raise ValueError(...)", lines 284-288.
MatchEmptyInput ==
    /\ pc = "match"
    /\ EmptyInput(aroll_segments, broll_descriptions)
    /\ error' = "ValueError"
    /\ pc' = "error"
    /\ UNCHANGED <<request_scope, rendering, inputs,
                   analysis, selection, planned, passed_insertions, previous,
                   embedding_calls>>

\* SemanticMatcher.match on non-empty inputs: the two embedding calls,
\* _select_best_matches (the candidates, Pass 1, Pass 2, the chronological
\* sort), then the output format.  The intermediate results are bound by \E
\* over singletons so that each is computed once.
Match ==
    /\ pc = "match"
    /\ ~EmptyInput(aroll_segments, broll_descriptions)
    /\ embedding_calls' = embedding_calls + 2
    /\ \E pm \in {FindPotentialMatches(similarity_matrix, aroll_segments,
                                       similarity_threshold)} :
       \E st1 \in {Pass1Loop(pm, 1, InitialSelection, max_insertions)} :
       \E st2 \in {AfterPass2(pm, st1, min_insertions)} :
          /\ potential_matches' = pm
          /\ pass1_matches' = st1.matches
          /\ accept_order' = st2.matches
          /\ matches' = SortByStartTime(st2.matches)
          /\ selected_indices' = st2.selected_indices
          /\ used_brolls' = st2.used_brolls
          /\ last_insertion_time' = st2.last_insertion_time
          /\ formatted_matches' = FormatMatches(aroll_segments, matches')
    /\ passed_insertions' = formatted_matches'
    /\ pc' = "timeline"
    /\ UNCHANGED <<request_scope, rendering, inputs,
                   analysis, planned, previous, error>>

\* Mutant: the planner keeps its segment list from one call to the next.
CreateTimelineAccumulating ==
    /\ pc = "timeline"
    /\ \E tl \in {timeline_segments
                      \o CreateTimelineSegments(aroll_segments, formatted_matches)} :
          /\ timeline_segments' = tl
          /\ timeline' = Timeline(uuids_issued + 1, clock + 1, tl,
                                  aroll_segments, formatted_matches)
          /\ statistics_ratios' \in
                 [broll_coverage_percent : CoveragePercent(tl),
                  average_confidence : AverageConfidence(formatted_matches)]
    /\ uuids_issued' = uuids_issued + 1
    /\ clock' = clock + 1
    /\ pc' = "done"
    /\ UNCHANGED <<request_scope, rendering, inputs,
                   analysis, selection, embedding_calls, error, passed_insertions,
                   previous>>

\* TimelinePlanner.create_timeline: the timeline segments, the statistics
\* and the dictionary.  uuid.uuid4() and datetime.utcnow() are modelled by
\* what tells their values apart: each call of uuid4 returns an id that no
\* earlier call returned, each reading of the clock a later time.  The
\* caller's lists are not written to ("sorted" copies).
CreateTimeline ==
    /\ pc = "timeline"
    /\ \E tl \in {CreateTimelineSegments(aroll_segments, formatted_matches)} :
          /\ timeline_segments' = tl
          /\ timeline' = Timeline(uuids_issued + 1, clock + 1, tl,
                                  aroll_segments, formatted_matches)
          /\ statistics_ratios' \in
                 [broll_coverage_percent : CoveragePercent(tl),
                  average_confidence : AverageConfidence(formatted_matches)]
    /\ uuids_issued' = uuids_issued + 1
    /\ clock' = clock + 1
    /\ pc' = "done"
    /\ UNCHANGED <<request_scope, rendering, inputs,
                   analysis, selection, embedding_calls, error, passed_insertions,
                   previous>>

Next ==
    \/ Match
    \/ MatchEmptyInput
    \/ CreateTimeline

Spec == Init /\ [][Next]_vars

(***************************************************************************)
(* The timeline planner on its own: create_timeline called, and called     *)
(* again, on segments and insertion lists of the caller's choice           *)
(***************************************************************************)

\* Largest number of insertions of a caller's list.
MaxInsertions == 2
\* Largest number of calls of create_timeline.
MaxRuns == 2

\* The insertions a caller can hand over: they may overlap, start anywhere
\* and end after the narration.
Insertions ==
    {[start_sec |-> s, duration_sec |-> d, broll_id |-> broll_ids[1],
      confidence |-> IF d = 2000 THEN Round3(8537) ELSE Round3(DefaultThreshold)] :
        s \in {0, 2000, 5000}, d \in {2000, 5000}}

InsertionLists == UNION {[1..n -> Insertions] : n \in 0..MaxInsertions}

\* The orders in which a list can be handed over.
Reorderings(s) == {[i \in 1..Len(s) |-> s[f[i]]] : f \in Permutations(1..Len(s))}

InitAssembler ==
    /\ aroll_segments \in Transcripts \cup {<<>>}
    /\ formatted_matches \in InsertionLists
    /\ passed_insertions = formatted_matches
    /\ broll_descriptions = broll_ids
    /\ similarity_matrix = <<>>
    /\ similarity_threshold = DefaultThreshold
    /\ min_insertions = 0
    /\ max_insertions = MaxInsertions
    /\ potential_matches = <<>>
    /\ matches = InitialSelection.matches
    /\ selected_indices = InitialSelection.selected_indices
    /\ used_brolls = InitialSelection.used_brolls
    /\ last_insertion_time = InitialSelection.last_insertion_time
    /\ accept_order = <<>>
    /\ pass1_matches = <<>>
    /\ timeline_segments = <<>>
    /\ embedding_calls = 0
    /\ error = "None"
    /\ timeline = <<>>
    /\ statistics_ratios = <<>>
    /\ uuids_issued = 0
    /\ clock = 0
    /\ broll_metadata = <<>>
    /\ descriptions = <<>>
    /\ previous_timeline = <<>>
    /\ previous_insertions = <<>>
    /\ pc = "timeline"
    /\ NoRequest
    /\ NoRendering

\* The caller calls create_timeline once more, with the same segments and
\* with the same insertions in an order of its choice.
CallAgain ==
    /\ pc = "done"
    /\ uuids_issued < MaxRuns
    /\ previous_timeline' = timeline
    /\ previous_insertions' = formatted_matches
    /\ formatted_matches' \in Reorderings(formatted_matches)
    /\ passed_insertions' = formatted_matches'
    /\ pc' = "timeline"
    /\ UNCHANGED <<request_scope, rendering, inputs,
                   analysis, potential_matches, matches, selected_indices, used_brolls,
                   last_insertion_time, accept_order, pass1_matches, planned,
                   embedding_calls, error>>

NextAssembler ==
    \/ CreateTimeline
    \/ CallAgain

AssemblerSpec == InitAssembler /\ [][NextAssembler]_vars

(***************************************************************************)
(* The B-roll analyzer on its own: analyze_brolls on a metadata dictionary *)
(* of the caller's choice                                                  *)
(***************************************************************************)

\* Largest number of clips of a metadata dictionary.
MaxClips == 2

\* The metadata dictionaries, as the sequences of their items: the keys of a
\* dictionary are distinct.
MetadataDicts ==
    UNION {{[k \in 1..n |-> [broll_id |-> ids[k], metadata |-> mds[k]]] :
               ids \in {f \in [1..n -> ClipIdPool] :
                            \A i, j \in 1..n : i # j => f[i] # f[j]},
               mds \in [1..n -> Metadata]} : n \in 0..MaxClips}

InitAnalyzer ==
    /\ broll_metadata \in MetadataDicts
    /\ descriptions = <<>>
    /\ aroll_segments = <<>>
    /\ formatted_matches = <<>>
    /\ passed_insertions = <<>>
    /\ broll_descriptions = <<>>
    /\ similarity_matrix = <<>>
    /\ similarity_threshold = DefaultThreshold
    /\ min_insertions = 0
    /\ max_insertions = 1
    /\ potential_matches = <<>>
    /\ matches = InitialSelection.matches
    /\ selected_indices = InitialSelection.selected_indices
    /\ used_brolls = InitialSelection.used_brolls
    /\ last_insertion_time = InitialSelection.last_insertion_time
    /\ accept_order = <<>>
    /\ pass1_matches = <<>>
    /\ timeline_segments = <<>>
    /\ embedding_calls = 0
    /\ error = "None"
    /\ timeline = <<>>
    /\ statistics_ratios = <<>>
    /\ uuids_issued = 0
    /\ clock = 0
    /\ previous_timeline = <<>>
    /\ previous_insertions = <<>>
    /\ pc = "analyze"
    /\ NoRequest
    /\ NoRendering

\* Mutant: the loop has no try/except, so the first exception of
\* analyze_broll ends analyze_brolls.
AnalyzeBrollsNoCatch ==
    /\ pc = "analyze"
    /\ LET raising == {k \in 1..Len(broll_metadata) :
                          AnalyzeBroll(broll_metadata[k].metadata).raised # "None"}
           first == CHOOSE k \in raising : \A l \in raising : k <= l
       IN IF raising = {}
          THEN /\ descriptions' =
                      [k \in 1..Len(broll_metadata) |->
                          [broll_id |-> broll_metadata[k].broll_id,
                           description |-> AnalyzeBroll(broll_metadata[k].metadata).value]]
               /\ error' = error
               /\ pc' = "analyzed"
          ELSE /\ descriptions' =
                      [k \in 1..(first - 1) |->
                          [broll_id |-> broll_metadata[k].broll_id,
                           description |-> AnalyzeBroll(broll_metadata[k].metadata).value]]
               /\ error' = AnalyzeBroll(broll_metadata[first].metadata).raised
               /\ pc' = "error"
    /\ UNCHANGED <<request_scope, rendering, inputs,
                   broll_metadata, selection, planned, passed_insertions,
                   previous, embedding_calls>>

\* BRollAnalyzer.analyze_brolls: one description per item, in the order of
\* the items; an exception of analyze_broll is caught and gives the
\* placeholder.
AnalyzeBrolls ==
    /\ pc = "analyze"
    /\ descriptions' =
           [k \in 1..Len(broll_metadata) |->
               [broll_id |-> broll_metadata[k].broll_id,
                description |-> DescriptionOf(broll_metadata[k].broll_id,
                                             broll_metadata[k].metadata)]]
    /\ pc' = "analyzed"
    /\ UNCHANGED <<request_scope, rendering, inputs,
                   broll_metadata, selection, planned, passed_insertions,
                   previous, embedding_calls, error>>

NextAnalyzer == AnalyzeBrolls

AnalyzerSpec == InitAnalyzer /\ [][NextAnalyzer]_vars

(***************************************************************************)
(* The renderer on its own: render on a timeline, an A-roll file and a     *)
(* mapping of the caller's choice                                          *)
(***************************************************************************)

\* The matcher, the planner and the analyzer are not called.
PipelineIdle ==
    /\ aroll_segments = <<>>
    /\ broll_descriptions = <<>>
    /\ similarity_matrix = <<>>
    /\ similarity_threshold = DefaultThreshold
    /\ min_insertions = 0
    /\ max_insertions = 1
    /\ potential_matches = <<>>
    /\ matches = InitialSelection.matches
    /\ selected_indices = InitialSelection.selected_indices
    /\ used_brolls = InitialSelection.used_brolls
    /\ last_insertion_time = InitialSelection.last_insertion_time
    /\ accept_order = <<>>
    /\ pass1_matches = <<>>
    /\ formatted_matches = <<>>
    /\ passed_insertions = <<>>
    /\ timeline_segments = <<>>
    /\ embedding_calls = 0
    /\ error = "None"
    /\ timeline = <<>>
    /\ statistics_ratios = <<>>
    /\ uuids_issued = 0
    /\ clock = 0
    /\ broll_metadata = <<>>
    /\ descriptions = <<>>
    /\ previous_timeline = <<>>
    /\ previous_insertions = <<>>

\* The timelines handed to render: segments of 3.0 s, one after the other,
\* each the A-roll or one of the clips.
RenderTimelines ==
    UNION {{[i \in 1..n |->
               [type |-> IF source[i] = "a_roll" THEN "a_roll" ELSE "b_roll",
                source |-> source[i],
                start_time |-> (i - 1) * 3000,
                duration |-> 3000]] :
               source \in [1..n -> {"a_roll"} \cup Range(broll_ids)]} :
           n \in 0..MaxRenderSegs}

InitRender ==
    /\ PipelineIdle
    /\ NoRequest
    /\ render_timeline \in RenderTimelines
    /\ broll_paths \in SUBSET Range(broll_ids)
    /\ video_files \in [aroll : {"missing", "invalid", "valid"},
                        brolls : SUBSET broll_paths]
    /\ ffmpeg_runs = <<>>
    /\ render_result = <<>>
    /\ pc = "render"

\* VideoRenderer.render: the A-roll file is checked, then the B-roll paths;
\* the command is built and handed to subprocess.run, whose failure
\* (CalledProcessError) is raised as RuntimeError.
Render ==
    /\ pc = "render"
    /\ \E raised \in {IF video_files.aroll = "missing" THEN "FileNotFoundError"
                      ELSE IF video_files.aroll = "invalid" THEN "ValueError"
                      ELSE ValidateBRollPaths(BRollSegments(render_timeline),
                                              broll_paths, video_files.brolls)} :
          IF raised # "None"
          THEN /\ render_result' = [raised |-> raised, returned |-> FALSE]
               /\ ffmpeg_runs' = ffmpeg_runs
          ELSE /\ ffmpeg_runs' = Append(ffmpeg_runs,
                                        BuildFfmpegCommand(render_timeline, broll_paths))
               /\ \E completed \in BOOLEAN :
                     render_result' = IF completed
                                      THEN [raised |-> "None", returned |-> TRUE]
                                      ELSE [raised |-> "RuntimeError", returned |-> FALSE]
    /\ pc' = "rendered"
    /\ UNCHANGED <<request_scope, inputs, analysis, selection, planned, passed_insertions,
                   previous, embedding_calls, error, render_timeline, broll_paths,
                   video_files>>

NextRender == Render

RenderSpec == InitRender /\ [][NextRender]_vars

(***************************************************************************)
(* main.py: generate_timeline, one request of POST /generate from the      *)
(* upload to the response                                                  *)
(***************************************************************************)

\* The form values of a request: FastAPI converts them to float and int and
\* hands them over as they are.
FormThresholds == {-5000, DefaultThreshold, 15000}
FormMinInsertions == {0, 2, 21}
FormMaxInsertions == {-1, 2, 21}

\* What a request carries: whether OPENAI_API_KEY is set, whether the file
\* name ends in a video extension, what the broll_metadata string parses to,
\* and the three form values.
Requests ==
    [api_key : BOOLEAN,
     video_extension : BOOLEAN,
     broll_metadata : {"malformed", "not_a_dict", "empty_dict", "dict"},
     similarity_threshold : FormThresholds,
     min_insertions : FormMinInsertions,
     max_insertions : FormMaxInsertions]

\* The transcripts of the uploaded video.
GenerateTranscripts == {<<>>} \cup {t \in Transcripts : Len(t) = 2}

\* The similarities that the returned vectors give for n segments.
GenerateMatrices(n) == [1..n -> {<<8537, 5000>>, <<5000, 8537>>, <<5000, 5000>>}]

\* The vectors a provider can return for n texts: one too few, n, or one too
\* many.
ReturnedVectors(n) == {[i \in 1..k |-> i] : k \in {n - 1, n, n + 1} \ {-1}}

\* raise HTTPException(status_code=..., ...).
ErrorResponse(status_code) == [status_code |-> status_code, timeline |-> <<>>]

\* A stage or provider call of the request and how it ended.
Stage(call, failed) == [call |-> call, failed |-> failed]

InitGenerate ==
    /\ PipelineIdle
    /\ NoRendering
    /\ request \in Requests
    /\ files = {}
    /\ stages = <<>>
    /\ response = <<>>
    /\ aroll_embeddings = <<>>
    /\ broll_embeddings = <<>>
    /\ pc = "request"

\* What the stages before match leave alone.
matching == <<similarity_matrix, similarity_threshold, min_insertions, max_insertions,
              selection, planned, passed_insertions, previous, embedding_calls,
              aroll_embeddings, broll_embeddings, analysis, rendering, request>>

\* generate_timeline, lines 142-178: the API key and the file name are
\* checked, the temporary directory is made and the upload written to it,
\* the metadata string is parsed and checked to be a dictionary.
ReceiveRequest ==
    /\ pc = "request"
    /\ IF ~request.api_key
       THEN /\ response' = ErrorResponse(500)
            /\ error' = "HTTPException"
            /\ pc' = "finally"
            /\ UNCHANGED <<files, stages>>
       ELSE IF ~request.video_extension
       THEN /\ response' = ErrorResponse(400)
            /\ error' = "HTTPException"
            /\ pc' = "finally"
            /\ UNCHANGED <<files, stages>>
       ELSE \E written \in BOOLEAN :
               IF ~written
               THEN /\ files' \in {{"temp_dir"}, {"temp_dir", "temp_aroll_path"}}
                    /\ stages' = Append(stages, Stage("save_upload", TRUE))
                    /\ error' = "OSError"
                    /\ pc' = "error"
                    /\ UNCHANGED response
               ELSE /\ files' = {"temp_dir", "temp_aroll_path"}
                    /\ stages' = Append(stages, Stage("save_upload", FALSE))
                    /\ IF request.broll_metadata \in {"malformed", "not_a_dict"}
                       THEN /\ response' = ErrorResponse(400)
                            /\ error' = "HTTPException"
                            /\ pc' = "finally"
                       ELSE /\ pc' = "extract_audio"
                            /\ UNCHANGED <<response, error>>
    /\ UNCHANGED <<aroll_segments, broll_descriptions, matching>>

\* transcribe_video, lines 136-140: extract_audio, called before the try
\* block.  write_audiofile writes <stem>_audio.mp3 next to the video; when
\* it fails the file may or may not have been created.
ExtractAudio ==
    /\ pc = "extract_audio"
    /\ \E extracted \in BOOLEAN :
          IF extracted
          THEN /\ files' = files \cup {"audio_path"}
               /\ stages' = Append(stages, Stage("extract_audio", FALSE))
               /\ pc' = "whisper"
               /\ UNCHANGED error
          ELSE /\ files' \in {files, files \cup {"audio_path"}}
               /\ stages' = Append(stages, Stage("extract_audio", TRUE))
               /\ error' = "ExtractionError"
               /\ pc' = "error"
    /\ UNCHANGED <<aroll_segments, broll_descriptions, matching, response>>

\* transcribe_video, lines 142-154: the Whisper call and process_segments
\* inside try, and the finally block that removes the audio file.
TranscribeWithTimestamps ==
    /\ pc = "whisper"
    /\ files' = files \ {"audio_path"}
    /\ \E transcribed \in BOOLEAN :
          IF transcribed
          THEN /\ aroll_segments' \in GenerateTranscripts
               /\ stages' = Append(stages, Stage("whisper", FALSE))
               /\ pc' = "analyze"
               /\ UNCHANGED error
          ELSE /\ stages' = Append(stages, Stage("whisper", TRUE))
               /\ error' = "ProviderError"
               /\ pc' = "error"
               /\ UNCHANGED aroll_segments
    /\ UNCHANGED <<broll_descriptions, matching, response>>

\* generate_timeline, lines 188-198: analyze_brolls gives one description
\* per clip, then the matcher is constructed with the form values.
AnalyzeMetadata ==
    /\ pc = "analyze"
    /\ broll_descriptions' = IF request.broll_metadata = "dict" THEN broll_ids ELSE <<>>
    /\ stages' = Append(stages, Stage("analyze_brolls", FALSE))
    /\ similarity_threshold' = request.similarity_threshold
    /\ min_insertions' = request.min_insertions
    /\ max_insertions' = request.max_insertions
    /\ pc' = "match"
    /\ UNCHANGED <<aroll_segments, similarity_matrix, selection, planned, passed_insertions,
                   previous, embedding_calls, aroll_embeddings, broll_embeddings, analysis,
                   rendering, request, files, response, error>>

\* SemanticMatcher.match, lines 284-288, in a request.
RejectEmptyInput ==
    /\ pc = "match"
    /\ EmptyInput(aroll_segments, broll_descriptions)
    /\ stages' = Append(stages, Stage("match", TRUE))
    /\ error' = "ValueError"
    /\ pc' = "error"
    /\ UNCHANGED <<inputs, analysis, selection, planned, passed_insertions, previous,
                   embedding_calls, rendering, request, files, response,
                   aroll_embeddings, broll_embeddings>>

\* Mutant: a failed narration batch is passed over and the clip batch is
\* embedded all the same.
EmbedNarrationPassingOverFailure ==
    /\ pc = "match"
    /\ ~EmptyInput(aroll_segments, broll_descriptions)
    /\ embedding_calls' = embedding_calls + 1
    /\ \E embedded \in BOOLEAN :
          IF embedded
          THEN /\ aroll_embeddings' \in ReturnedVectors(Len(aroll_segments))
               /\ stages' = Append(stages, Stage("embed_aroll", FALSE))
               /\ UNCHANGED error
          ELSE /\ stages' = Append(stages, Stage("embed_aroll", TRUE))
               /\ error' = "ProviderError"
               /\ UNCHANGED aroll_embeddings
    /\ pc' = "embed_broll"
    /\ UNCHANGED <<inputs, analysis, selection, planned, passed_insertions, previous,
                   rendering, request, files, response, broll_embeddings>>

\* SemanticMatcher.match, line 297: _get_embeddings(aroll_texts), one call of
\* client.embeddings.create.  Whatever the provider returns is made an
\* array; an exception of the call is not caught.
EmbedNarration ==
    /\ pc = "match"
    /\ ~EmptyInput(aroll_segments, broll_descriptions)
    /\ embedding_calls' = embedding_calls + 1
    /\ \E embedded \in BOOLEAN :
          IF embedded
          THEN /\ aroll_embeddings' \in ReturnedVectors(Len(aroll_segments))
               /\ stages' = Append(stages, Stage("embed_aroll", FALSE))
               /\ pc' = "embed_broll"
               /\ UNCHANGED error
          ELSE /\ stages' = Append(stages, Stage("embed_aroll", TRUE))
               /\ error' = "ProviderError"
               /\ pc' = "error"
               /\ UNCHANGED aroll_embeddings
    /\ UNCHANGED <<inputs, analysis, selection, planned, passed_insertions, previous,
                   rendering, request, files, response, broll_embeddings>>

\* SemanticMatcher.match, line 298: _get_embeddings(broll_texts).
EmbedClips ==
    /\ pc = "embed_broll"
    /\ embedding_calls' = embedding_calls + 1
    /\ \E embedded \in BOOLEAN :
          IF embedded
          THEN /\ broll_embeddings' \in ReturnedVectors(Len(broll_descriptions))
               /\ stages' = Append(stages, Stage("embed_broll", FALSE))
               /\ pc' = "select"
               /\ UNCHANGED error
          ELSE /\ stages' = Append(stages, Stage("embed_broll", TRUE))
               /\ error' = "ProviderError"
               /\ pc' = "error"
               /\ UNCHANGED broll_embeddings
    /\ UNCHANGED <<inputs, analysis, selection, planned, passed_insertions, previous,
                   rendering, request, files, response, aroll_embeddings>>

\* SemanticMatcher.match, lines 301-330: the similarity matrix of the two
\* arrays, _select_best_matches and the output format.  The matrix has one
\* row per narration vector and one column per clip vector;
\* _select_best_matches reads similarity_matrix[seg_idx, broll_idx] for every
\* segment and clip, which raises IndexError when a row or column is missing
\* and leaves the rows and columns beyond them unread.
SelectMatches ==
    /\ pc = "select"
    /\ IF \/ Len(aroll_embeddings) < Len(aroll_segments)
          \/ Len(broll_embeddings) < Len(broll_descriptions)
       THEN /\ stages' = Append(stages, Stage("select", TRUE))
            /\ error' = "IndexError"
            /\ pc' = "error"
            /\ UNCHANGED <<similarity_matrix, selection, passed_insertions>>
       ELSE /\ stages' = Append(stages, Stage("select", FALSE))
            /\ similarity_matrix' \in GenerateMatrices(Len(aroll_segments))
            /\ \E pm \in {FindPotentialMatches(similarity_matrix', aroll_segments,
                                               similarity_threshold)} :
               \E st1 \in {Pass1Loop(pm, 1, InitialSelection, max_insertions)} :
               \E st2 \in {AfterPass2(pm, st1, min_insertions)} :
                  /\ potential_matches' = pm
                  /\ pass1_matches' = st1.matches
                  /\ accept_order' = st2.matches
                  /\ matches' = SortByStartTime(st2.matches)
                  /\ selected_indices' = st2.selected_indices
                  /\ used_brolls' = st2.used_brolls
                  /\ last_insertion_time' = st2.last_insertion_time
                  /\ formatted_matches' = FormatMatches(aroll_segments, matches')
            /\ passed_insertions' = formatted_matches'
            /\ pc' = "timeline"
            /\ UNCHANGED error
    /\ UNCHANGED <<aroll_segments, broll_descriptions, similarity_threshold, min_insertions,
                   max_insertions, analysis, planned, previous, embedding_calls, rendering,
                   request, files, response, aroll_embeddings, broll_embeddings>>

\* generate_timeline, line 209: return JSONResponse(content=timeline).
ReturnTimeline ==
    /\ pc = "done"
    /\ response' = [status_code |-> 200, timeline |-> timeline]
    /\ pc' = "finally"
    /\ UNCHANGED <<aroll_segments, broll_descriptions, matching, files, stages, error>>

\* generate_timeline, lines 213-220: an exception that is not an
\* HTTPException is answered with status 500.
InternalServerError ==
    /\ pc = "error"
    /\ response' = ErrorResponse(500)
    /\ pc' = "finally"
    /\ UNCHANGED <<aroll_segments, broll_descriptions, matching, files, stages, error>>

\* generate_timeline, lines 222-233: the finally block removes the upload if
\* it exists, then the directory with os.rmdir, which fails on a directory
\* that is not empty; the failure is passed over.
Finally ==
    /\ pc = "finally"
    /\ files' = IF "audio_path" \in files
                THEN files \ {"temp_aroll_path"}
                ELSE {}
    /\ pc' = "responded"
    /\ UNCHANGED <<aroll_segments, broll_descriptions, matching, stages, response, error>>

NextGenerate ==
    \/ ReceiveRequest
    \/ ExtractAudio
    \/ TranscribeWithTimestamps
    \/ AnalyzeMetadata
    \/ RejectEmptyInput
    \/ EmbedNarration
    \/ EmbedClips
    \/ SelectMatches
    \/ CreateTimeline
    \/ ReturnTimeline
    \/ InternalServerError
    \/ Finally

GenerateSpec == InitGenerate /\ [][NextGenerate]_vars

(***************************************************************************)
(* Properties                                                              *)
(***************************************************************************)

\* match has returned: matches is the list _select_best_matches returned.
MatchReturned == pc \in {"timeline", "done"}

\* create_timeline has built the timeline segments.
TimelineBuilt == pc = "done"

\* The number of matches of ms that show B-roll b.
Uses(ms, b) == Cardinality({k \in 1..Len(ms) : ms[k].broll_id = b})

\* The relevance of the (segment, clip) pair of a match, read from the matrix.
Relevance(m) ==
    similarity_matrix[m.segment_idx + 1]
                     [CHOOSE b \in 1..Len(broll_ids) : broll_ids[b] = m.broll_id]

\* The start_time of the match accepted last, in either pass.
LastAcceptedStart ==
    IF accept_order = <<>> THEN InitialLastInsertionTime
    ELSE accept_order[Len(accept_order)].start_time

\* The end_time of the last narration segment.
TotalARollDuration == aroll_segments[Len(aroll_segments)].end_time

\* C1: the list _select_best_matches returns, after Pass 1 and Pass 2, holds
\* no broll_id in more than 2 matches (stated for the configurations with
\* min_insertions <= max_insertions, which the selector's contract asks for).
C1_ReuseCap ==
    (MatchReturned /\ min_insertions <= max_insertions) =>
        \A b \in Range(broll_ids) : Uses(matches, b) <= MaxUsesPerBroll

\* C2: the timeline has no gaps and no overlaps: the first segment starts at
\* 0.0, every later one starts at the end_time of the one before it, and the
\* last one ends at the end_time of the last narration segment; also for the
\* empty insertion list.
C2_NoGapsNoOverlaps ==
    TimelineBuilt =>
        /\ timeline_segments # <<>>
        /\ timeline_segments[1].start_time = 0
        /\ \A i \in 2..Len(timeline_segments) :
               timeline_segments[i].start_time = timeline_segments[i - 1].end_time
        /\ timeline_segments[Len(timeline_segments)].end_time = TotalARollDuration

\* C3: with non-empty narration segments and no insertions the timeline is
\* exactly one a_roll segment from 0.0 to the end of the last narration
\* segment.
C3_SingleNarrationInterval ==
    (TimelineBuilt /\ formatted_matches = <<>>) =>
        /\ Len(timeline_segments) = 1
        /\ timeline_segments[1].type = "a_roll"
        /\ timeline_segments[1].start_time = 0
        /\ timeline_segments[1].end_time = TotalARollDuration

\* |a - b|.
AbsDiff(a, b) == IF a >= b THEN a - b ELSE b - a

\* The segment indices of a list of matches.
SegmentsOf(ms) == {ms[k].segment_idx : k \in 1..Len(ms)}

\* C4: with min_insertions <= max_insertions the selector returns at most
\* max_insertions matches, and Pass 1 never holds more than max_insertions.
C4_AtMostMaxInsertions ==
    MatchReturned =>
        /\ Len(pass1_matches) <= max_insertions
        /\ min_insertions <= max_insertions => Len(matches) <= max_insertions

\* C4's case: Pass 1 stopped at max_insertions although a candidate that
\* passes its three tests was left.
C4_Witness ==
    /\ MatchReturned
    /\ min_insertions <= max_insertions
    /\ Len(matches) = max_insertions
    /\ \E k \in 1..Len(potential_matches) :
           /\ potential_matches[k].segment_idx \notin selected_indices
           /\ used_brolls[potential_matches[k].broll_id] < MaxUsesPerBroll
           /\ potential_matches[k].start_time - last_insertion_time >= StrictGap

\* C5: when fewer than min_insertions matches are returned, no candidate is
\* left with an unused segment, a clip used fewer than 2 times and a
\* start_time at least 3.0 s after the start_time of the last accepted match.
C5_BelowMinOnlyWhenExhausted ==
    (MatchReturned /\ Len(matches) < min_insertions) =>
        ~ \E k \in 1..Len(potential_matches) :
              /\ potential_matches[k].segment_idx \notin SegmentsOf(matches)
              /\ Uses(matches, potential_matches[k].broll_id) < MaxUsesPerBroll
              /\ potential_matches[k].start_time - LastAcceptedStart >= RelaxedGap

\* C6: any two distinct matches accepted in Pass 1 start at least 5.0 s
\* apart.
C6_Pass1PairwiseSpacing ==
    MatchReturned =>
        \A i, j \in 1..Len(pass1_matches) :
            i # j => AbsDiff(pass1_matches[i].start_time,
                             pass1_matches[j].start_time) >= StrictGap

\* C6's case: Pass 1 accepted three matches, so a non-consecutive pair exists.
C6_Witness ==
    /\ MatchReturned
    /\ Len(pass1_matches) >= 3

\* C7: every match added in Pass 2 starts at least 3.0 s after the match
\* accepted immediately before it (after -10.0 when nothing was accepted).
C7_Pass2Spacing ==
    MatchReturned =>
        \A i \in (Len(pass1_matches) + 1)..Len(accept_order) :
            accept_order[i].start_time
              - (IF i = 1 THEN InitialLastInsertionTime
                 ELSE accept_order[i - 1].start_time) >= RelaxedGap

\* C7's case: Pass 2 added a match less than 5.0 s after a match of Pass 1.
C7_Witness ==
    /\ MatchReturned
    /\ Len(pass1_matches) >= 1
    /\ Len(accept_order) > Len(pass1_matches)
    /\ accept_order[Len(pass1_matches) + 1].start_time
         - accept_order[Len(pass1_matches)].start_time < StrictGap

\* No (segment, clip) pair reaches the similarity threshold.
NoPairAboveThreshold ==
    \A s \in 1..Len(aroll_segments) : \A b \in 1..Len(broll_ids) :
        similarity_matrix[s][b] < similarity_threshold

\* C8: every returned match is a pair whose relevance is >= the threshold,
\* and when no pair reaches the threshold the returned list is empty.
C8_OnlyAboveThreshold ==
    MatchReturned =>
        /\ \A k \in 1..Len(matches) : Relevance(matches[k]) >= similarity_threshold
        /\ NoPairAboveThreshold => (matches = <<>> /\ formatted_matches = <<>>)

\* C8's case: Pass 2 ran short of min_insertions and still left a pair below
\* the threshold whose segment is unused and far enough from the last match.
C8_Witness ==
    /\ MatchReturned
    /\ Len(matches) < min_insertions
    /\ \E s \in 1..Len(aroll_segments) : \E b \in 1..Len(broll_ids) :
           /\ similarity_matrix[s][b] < similarity_threshold
           /\ (s - 1) \notin SegmentsOf(matches)
           /\ aroll_segments[s].start_time - LastAcceptedStart >= RelaxedGap

\* C9: the returned list holds every match of Pass 1, Pass 2 only appends to
\* them, it adds nothing when Pass 1 reached min_insertions, and two
\* candidates less than 5.0 s apart (2.0 s in the claim's example) with
\* min_insertions = 1 give the first-ranked one alone.
C9_Pass2OnlyAdds ==
    MatchReturned =>
        /\ Range(pass1_matches) \subseteq Range(matches)
        /\ Len(pass1_matches) <= Len(accept_order)
        /\ SubSeq(accept_order, 1, Len(pass1_matches)) = pass1_matches
        /\ Len(pass1_matches) >= min_insertions => Len(matches) = Len(pass1_matches)
        /\ ( /\ Len(potential_matches) = 2
             /\ AbsDiff(potential_matches[1].start_time,
                        potential_matches[2].start_time) < StrictGap
             /\ min_insertions = 1 )
           => matches = <<potential_matches[1]>>

\* C9's case: Pass 1 accepted a match and Pass 2 added another one.
C9_Witness ==
    /\ MatchReturned
    /\ Len(pass1_matches) >= 1
    /\ Len(matches) > Len(pass1_matches)

\* C10: no segment index is the source of more than one returned match.
C10_OneMatchPerSegment ==
    MatchReturned =>
        \A i, j \in 1..Len(matches) :
            i # j => matches[i].segment_idx # matches[j].segment_idx

\* C10's case: Pass 2 added a match while a segment that already has a match
\* has a second candidate.
C10_Witness ==
    /\ MatchReturned
    /\ Len(matches) > Len(pass1_matches)
    /\ \E k \in 1..Len(potential_matches) :
           /\ potential_matches[k] \notin Range(matches)
           /\ potential_matches[k].segment_idx \in SegmentsOf(pass1_matches)

\* C11: the list _select_best_matches returns is in ascending order of
\* start_time, whatever the order of acceptance.
C11_SortedByStartTime ==
    MatchReturned =>
        \A i, j \in 1..Len(matches) :
            i < j => matches[i].start_time <= matches[j].start_time

\* C11's case: the returned list holds matches of both passes, at different
\* start times.
C11_Witness ==
    /\ MatchReturned
    /\ Len(pass1_matches) >= 1
    /\ Len(matches) > Len(pass1_matches)
    /\ matches[1].start_time < matches[Len(matches)].start_time

\* The index of a clip in broll_ids.
ClipIndex(b) == CHOOSE i \in 1..Len(broll_ids) : broll_ids[i] = b

\* Candidate a is walked before candidate b: higher similarity first, then
\* the lower segment index, then the lower clip index.
WalksBefore(a, b) ==
    \/ a.similarity > b.similarity
    \/ /\ a.similarity = b.similarity
       /\ \/ a.segment_idx < b.segment_idx
          \/ /\ a.segment_idx = b.segment_idx
             /\ ClipIndex(a.broll_id) < ClipIndex(b.broll_id)

\* C12: the candidate list holds each pair that reaches the threshold, in
\* the strict order similarity descending, segment index ascending, clip
\* index ascending (so the list is determined by the matrix, the segments
\* and the threshold), and each pass accepts its matches in that order: of
\* two matches of a pass, the one accepted first is walked first.
C12_WalkOrder ==
    MatchReturned =>
        /\ \A i, j \in 1..Len(potential_matches) :
               i < j => WalksBefore(potential_matches[i], potential_matches[j])
        /\ \A s \in 1..Len(aroll_segments) : \A b \in 1..Len(broll_ids) :
               similarity_matrix[s][b] >= similarity_threshold =>
                   \E k \in 1..Len(potential_matches) :
                       /\ potential_matches[k].segment_idx = s - 1
                       /\ potential_matches[k].broll_id = broll_ids[b]
        /\ Range(accept_order) \subseteq Range(potential_matches)
        /\ \A i, j \in 1..Len(pass1_matches) :
               i < j => WalksBefore(pass1_matches[i], pass1_matches[j])
        /\ \A i, j \in (Len(pass1_matches) + 1)..Len(accept_order) :
               i < j => WalksBefore(accept_order[i], accept_order[j])

\* C12's case: two candidates of equal similarity from different segments
\* and two of equal similarity from the same segment were walked, and a
\* match was accepted.
C12_Witness ==
    /\ MatchReturned
    /\ matches # <<>>
    /\ \E i, j \in 1..Len(potential_matches) :
           /\ i < j
           /\ potential_matches[i].similarity = potential_matches[j].similarity
           /\ potential_matches[i].segment_idx # potential_matches[j].segment_idx
    /\ \E i, j \in 1..Len(potential_matches) :
           /\ i < j
           /\ potential_matches[i].similarity = potential_matches[j].similarity
           /\ potential_matches[i].segment_idx = potential_matches[j].segment_idx

\* C13: when a pair reaches the threshold (max_insertions >= 1, start times
\* >= 0), the first candidate of the sorted list is the first match Pass 1
\* accepts, and match returns an insertion with that segment's start_time as
\* start_sec and its end_time - start_time as duration_sec.
C13_FirstCandidateAccepted ==
    (MatchReturned /\ potential_matches # <<>> /\ max_insertions >= 1) =>
        /\ pass1_matches # <<>>
        /\ pass1_matches[1] = potential_matches[1]
        /\ \E k \in 1..Len(formatted_matches) :
               /\ formatted_matches[k].start_sec = potential_matches[1].start_time
               /\ formatted_matches[k].duration_sec =
                      potential_matches[1].end_time - potential_matches[1].start_time
               /\ formatted_matches[k].broll_id = potential_matches[1].broll_id

\* C13's case: a single clip matches a single segment, which starts less
\* than 5.0 s after 0.0.
C13_Witness ==
    /\ MatchReturned
    /\ Len(potential_matches) = 1
    /\ potential_matches[1].start_time < StrictGap
    /\ Len(formatted_matches) = 1

\* C14 as stated: start_sec, duration_sec and broll_id as in C14_FormatFields
\* and confidence equal to the relevance of the accepted pair.
C14_ExactConfidence ==
    MatchReturned =>
        /\ Len(formatted_matches) = Len(matches)
        /\ \A k \in 1..Len(matches) :
               LET segment == aroll_segments[matches[k].segment_idx + 1]
               IN /\ formatted_matches[k].start_sec = segment.start_time
                  /\ formatted_matches[k].duration_sec =
                         segment.end_time - segment.start_time
                  /\ formatted_matches[k].confidence = Relevance(matches[k])
                  /\ formatted_matches[k].broll_id \in Range(broll_ids)
                  /\ formatted_matches[k].broll_id = matches[k].broll_id

\* C14, amended: for segments as process_segments produces them, every
\* insertion has start_sec equal to its segment's start_time, duration_sec
\* equal to end_time - start_time, confidence equal to the relevance of the
\* accepted pair rounded to 3 decimal places, and a broll_id of the caller.
C14_FormatFields ==
    MatchReturned =>
        /\ Len(formatted_matches) = Len(matches)
        /\ \A k \in 1..Len(matches) :
               LET segment == aroll_segments[matches[k].segment_idx + 1]
               IN /\ formatted_matches[k].start_sec = segment.start_time
                  /\ formatted_matches[k].duration_sec =
                         segment.end_time - segment.start_time
                  /\ formatted_matches[k].confidence = Round3(Relevance(matches[k]))
                  /\ formatted_matches[k].broll_id \in Range(broll_ids)
                  /\ formatted_matches[k].broll_id = matches[k].broll_id

\* C14's case: an insertion of a pair whose relevance has a fourth decimal,
\* for a segment that does not start at 0.0.
C14_Witness ==
    /\ MatchReturned
    /\ \E k \in 1..Len(matches) :
           /\ Relevance(matches[k]) # Round3(Relevance(matches[k]))
           /\ matches[k].start_time > 0

\* C15: match on an empty segment list or an empty description map ends
\* with ValueError, having issued no embedding call and produced nothing;
\* on other inputs it does not end with an error.
C15_EmptyInputFailsFirst ==
    pc # "match" =>
        /\ EmptyInput(aroll_segments, broll_descriptions) <=> pc = "error"
        /\ pc = "error" =>
               /\ error = "ValueError"
               /\ embedding_calls = 0
               /\ potential_matches = <<>>
               /\ formatted_matches = <<>>
        /\ pc # "error" => error = "None"

\* C15's case: match has failed on a non-empty segment list with an empty
\* description map.
C15_Witness ==
    /\ pc = "error"
    /\ aroll_segments # <<>>
    /\ broll_descriptions = <<>>

\* C16: on an empty narration segment list create_timeline ends without an
\* error and its interval sequence is empty, whatever the insertions.
C16_EmptySegmentsEmptyTimeline ==
    (TimelineBuilt /\ aroll_segments = <<>>) =>
        /\ timeline_segments = <<>>
        /\ timeline.segments = <<>>
        /\ error = "None"

\* C16's case: the timeline was built from no segments and a full list of
\* insertions.
C16_Witness ==
    /\ TimelineBuilt
    /\ aroll_segments = <<>>
    /\ Len(formatted_matches) = MaxInsertions

\* No two insertions of the list have the same start_sec.
DistinctStarts(insertions) ==
    \A i, j \in 1..Len(insertions) :
        i # j => insertions[i].start_sec # insertions[j].start_sec

\* create_timeline has returned from a call that was not the first.
BuiltAgain == TimelineBuilt /\ uuids_issued >= 2

\* C17: a call of create_timeline on a reordering of the insertion list of
\* the call before (distinct start_sec) returns the same interval sequence,
\* and every call leaves the caller's insertion list as it was handed over.
C17_OrderOfInsertionsIrrelevant ==
    /\ TimelineBuilt => formatted_matches = passed_insertions
    /\ ( /\ BuiltAgain
         /\ formatted_matches \in Reorderings(previous_insertions)
         /\ DistinctStarts(formatted_matches) )
       => /\ timeline_segments = previous_timeline.segments
          /\ timeline.segments = previous_timeline.segments

\* C17's case: the second call got the insertions of the first in another
\* order, on a non-empty transcript.
C17_Witness ==
    /\ BuiltAgain
    /\ aroll_segments # <<>>
    /\ formatted_matches # previous_insertions
    /\ DistinctStarts(formatted_matches)
    /\ timeline_segments # <<>>

Cutaways == SelectSeq(timeline_segments, LAMBDA seg : seg.type = "b_roll")

\* The insertions in the order the assembler walks them.
SortedInsertions ==
    StableSort(formatted_matches,
               [k \in 1..Len(formatted_matches) |-> formatted_matches[k].start_sec])

FailsToAnalyze(metadata) ==
    metadata.content \in {"malformed", "not_a_dict", "numeric_description"}

\* C20: analyze_brolls ends without an error and returns one description
\* for each clip id it was given and for no other; a clip whose metadata
\* fails to analyze gets the placeholder "B-roll clip <id>", every other
\* clip the description built from its metadata.
C20_OneDescriptionPerClip ==
    pc # "analyze" =>
        /\ pc = "analyzed"
        /\ error = "None"
        /\ Len(descriptions) = Len(broll_metadata)
        /\ \A k \in 1..Len(broll_metadata) :
               /\ descriptions[k].broll_id = broll_metadata[k].broll_id
               /\ FailsToAnalyze(broll_metadata[k].metadata) =>
                      descriptions[k].description =
                          <<"B-roll clip", broll_metadata[k].broll_id>>
               /\ ~FailsToAnalyze(broll_metadata[k].metadata) =>
                      descriptions[k].description =
                          (IF broll_metadata[k].metadata.content = "titled"
                           THEN <<"Demo">> ELSE <<"B-roll video clip">>)

\* C20's case: a clip whose metadata fails to analyze is followed by a clip
\* whose metadata is analyzed.
C20_Witness ==
    /\ pc = "analyzed"
    /\ \E k, l \in 1..Len(broll_metadata) :
           /\ k < l
           /\ FailsToAnalyze(broll_metadata[k].metadata)
           /\ broll_metadata[l].metadata.content = "titled"
           /\ descriptions[l].description = <<"Demo">>

\* The texts of the narration segments that meet [s, e], touching ones
\* included, in segment order.
SegmentsMeeting(s, e) ==
    LET meeting == SelectSeq(aroll_segments,
                       LAMBDA seg : seg.end_time >= s /\ seg.start_time <= e)
    IN [k \in 1..Len(meeting) |-> meeting[k].text]

\* C26: the transcript of each a_roll interval [s, e] of the timeline is the
\* text, in segment order, of exactly the narration segments for which
\* not (end_time < s or start_time > e) holds, so a segment that only
\* touches s or e is part of it.
C26_NarrationTranscript ==
    TimelineBuilt =>
        \A k \in 1..Len(timeline_segments) :
            timeline_segments[k].type = "a_roll" =>
                timeline_segments[k].transcript =
                    SegmentsMeeting(timeline_segments[k].start_time,
                                    timeline_segments[k].end_time)

\* C28: the matches are accepted in strictly increasing start_time order,
\* Pass 1 and Pass 2 taken together: after each acceptance the running
\* last_insertion_time, the start_time just accepted, is the largest
\* start_time accepted so far; a match accepted after a match at T starts at
\* T + 3.0 s or later; and the final sort returns the acceptance order.
C28_AcceptedInIncreasingOrder ==
    MatchReturned =>
        /\ \A j \in 1..Len(accept_order) :
               \A i \in 1..(j - 1) :
                   /\ accept_order[i].start_time < accept_order[j].start_time
                   /\ accept_order[j].start_time
                          >= accept_order[i].start_time + RelaxedGap
        /\ \A i \in 1..Len(accept_order) :
               accept_order[i].start_time <= last_insertion_time
        /\ last_insertion_time = LastAcceptedStart
        /\ matches = accept_order

\* C28's case: both passes accepted a match, and a candidate that is ranked
\* below an accepted match and starts before it was left out for good,
\* although its segment is unused and its clip was used less than twice.
C28_Witness ==
    /\ MatchReturned
    /\ Len(pass1_matches) >= 1
    /\ Len(accept_order) > Len(pass1_matches)
    /\ Len(matches) < min_insertions
    /\ \E k \in 1..Len(potential_matches) :
           /\ potential_matches[k].segment_idx \notin SegmentsOf(matches)
           /\ Uses(matches, potential_matches[k].broll_id) < MaxUsesPerBroll
           /\ potential_matches[k].start_time < accept_order[1].start_time

\* The larger of two numbers.
Max(a, b) == IF a >= b THEN a ELSE b

\* C29: Pass 2 adds a match only while fewer than min_insertions are
\* accepted, whatever max_insertions is, so the returned list has at most
\* max(min_insertions, max_insertions) matches, also for
\* min_insertions > max_insertions.
C29_AtMostMaxOfMinAndMax ==
    MatchReturned =>
        /\ Len(matches) <= Max(min_insertions, max_insertions)
        /\ Len(pass1_matches) <= max_insertions
        /\ Len(matches) > Len(pass1_matches) =>
               /\ Len(pass1_matches) < min_insertions
               /\ Len(matches) <= min_insertions

\* C29's case: min_insertions > max_insertions, Pass 1 stopped at
\* max_insertions and Pass 2 went past it, up to min_insertions.
C29_Witness ==
    /\ MatchReturned
    /\ min_insertions > max_insertions
    /\ Len(pass1_matches) = max_insertions
    /\ Len(matches) > max_insertions
    /\ Len(matches) = min_insertions

\* C30: for non-empty narration segments and the insertions match returned
\* for them, the statistics' total_duration is aroll_duration +
\* broll_duration and is original_aroll_duration, the end_time of the last
\* narration segment.
C30_TotalDuration ==
    (TimelineBuilt /\ aroll_segments # <<>>) =>
        /\ timeline.total_duration = timeline.statistics.total_duration
        /\ timeline.statistics.total_duration =
               timeline.statistics.aroll_duration
                   + timeline.statistics.broll_duration
        /\ timeline.statistics.original_aroll_duration = TotalARollDuration
        /\ timeline.statistics.total_duration =
               timeline.statistics.original_aroll_duration

\* C27 as the claim words it: broll_coverage_percent is exactly
\* 100 * broll_duration / total_duration and average_confidence is exactly
\* the mean of the insertions' confidences.
C27_ExactRatios ==
    TimelineBuilt =>
        /\ timeline.statistics.total_duration > 0 =>
               statistics_ratios.broll_coverage_percent
                   * timeline.statistics.total_duration
                 = 1000 * timeline.statistics.broll_duration
        /\ formatted_matches # <<>> =>
               statistics_ratios.average_confidence * Len(formatted_matches)
                 = TotalConfidence(formatted_matches)

\* C27: create_timeline ends without an error on every input;
\* broll_coverage_percent is 0 when the durations of the timeline segments
\* sum to 0 and otherwise 100 * broll_duration / total_duration rounded to
\* 1 decimal; average_confidence is 0 for no insertions and otherwise the
\* mean of the insertions' confidences rounded to 3 decimals.
C27_RoundedRatios ==
    TimelineBuilt =>
        /\ error = "None"
        /\ timeline.statistics.total_duration = 0 =>
               statistics_ratios.broll_coverage_percent = 0
        /\ timeline.statistics.total_duration > 0 =>
               2 * AbsDiff(statistics_ratios.broll_coverage_percent
                               * timeline.statistics.total_duration,
                           1000 * timeline.statistics.broll_duration)
                   <= timeline.statistics.total_duration
        /\ formatted_matches = <<>> => statistics_ratios.average_confidence = 0
        /\ formatted_matches # <<>> =>
               /\ statistics_ratios.average_confidence % 10 = 0
               /\ 2 * AbsDiff(statistics_ratios.average_confidence
                                  * Len(formatted_matches),
                              TotalConfidence(formatted_matches))
                      <= 10 * Len(formatted_matches)

\* C27's case: no narration and two insertions of different confidence, so
\* that the durations sum to 0 while the mean is neither confidence.
C27_Witness ==
    /\ TimelineBuilt
    /\ aroll_segments = <<>>
    /\ timeline.statistics.total_duration = 0
    /\ statistics_ratios.broll_coverage_percent = 0
    /\ Len(formatted_matches) = 2
    /\ \A k \in 1..2 :
           statistics_ratios.average_confidence # formatted_matches[k].confidence

\* The B-roll segments of the timeline handed to render whose clip id has no
\* entry in broll_paths.
UnmappedCutaways ==
    {i \in 1..Len(render_timeline) :
        /\ render_timeline[i].type = "b_roll"
        /\ render_timeline[i].source \notin broll_paths}

\* C24: when the timeline handed to render has a B-roll segment whose clip id
\* has no entry in broll_paths, render raises an exception and hands no
\* command to ffmpeg; and a command that render does run has one overlay for
\* each B-roll segment of the timeline.
C24_UnmappedCutawayIsAnError ==
    pc = "rendered" =>
        /\ UnmappedCutaways # {} =>
              /\ render_result.raised # "None"
              /\ ~render_result.returned
              /\ ffmpeg_runs = <<>>
        /\ \A r \in 1..Len(ffmpeg_runs) :
              Len(ffmpeg_runs[r].overlay_filters) = Len(BRollSegments(render_timeline))

\* render has raised ValueError on a valid A-roll and a timeline of one
\* cutaway whose clip is mapped and whose file exists and a later one whose
\* clip is not mapped.
C24_Witness ==
    /\ pc = "rendered"
    /\ video_files.aroll = "valid"
    /\ \E i, j \in 1..Len(render_timeline) :
          /\ i < j
          /\ render_timeline[i].type = "b_roll"
          /\ render_timeline[i].source \in video_files.brolls
          /\ j \in UnmappedCutaways
    /\ render_result.raised = "ValueError"
    /\ ffmpeg_runs = <<>>

\* The form values of the request are within the ranges [0, 1] and [0, 20].
FormValuesInRange ==
    /\ request.similarity_threshold \in 0..10000
    /\ request.min_insertions \in 0..20
    /\ request.max_insertions \in 0..20

\* The calls of the request so far, in their order.
CallsStarted == [i \in 1..Len(stages) |-> stages[i].call]

\* C21: when a request of generate has ended, on whatever path, the upload,
\* the extracted audio file and the temporary directory of the request do
\* not exist.
C21_NothingLeftBehind ==
    pc = "responded" => files = {}

C23_OutOfRangeRejected ==
    ~FormValuesInRange =>
        /\ Range(CallsStarted) \subseteq {"save_upload"}
        /\ similarity_threshold \in 0..10000
        /\ min_insertions \in 0..20
        /\ max_insertions \in 0..20
        /\ response # <<>> => response.status_code # 200

\* A batch for which the provider returned a number of vectors other than
\* the number of texts.
MismatchedBatches ==
    {c \in {"embed_aroll", "embed_broll"} :
        /\ Stage(c, FALSE) \in Range(stages)
        /\ IF c = "embed_aroll"
           THEN Len(aroll_embeddings) # Len(aroll_segments)
           ELSE Len(broll_embeddings) # Len(broll_descriptions)}

\* C25: when the provider returns a number of vectors other than the number
\* of texts, the embedding fails with a provider error, and the similarity
\* matrix and the selection are not computed from the result.
C25_MismatchedCountIsProviderError ==
    MismatchedBatches # {} =>
        /\ error = "ProviderError"
        /\ "select" \notin Range(CallsStarted)

====
